---- MODULE Spec2Model ----
(***************************************************************************)
(* The subagent execution supervisor of .agent/tools: the process launcher, *)
(* the two stream drainers, the idle watchdog, the result classifier and    *)
(* the fallback writers, for both subprocess entry points                   *)
(*   main              in .agent/tools/run_subagent.py                      *)
(*   execute_subagent  in .agent/tools/lib/modules/run_subagent_exec.py     *)
(* Time is counted in poll intervals (the 0.1 s bounded wait of the         *)
(* watchdog on the output queue).                                           *)
(***************************************************************************)
EXTENDS Integers, Sequences, FiniteSets, TLC

\* ------------------------------------------------------------------ bounds
MaxChunks == 1      \* chunks the child emits on each stream
MaxTime == 4        \* the clock stops advancing here
IdleTimeout == 2    \* --idle-timeout, in poll intervals
PollInterval == 1   \* stdout_queue.get(timeout=0.1)

Streams == {"out", "err"}
Entries == {"main", "exec"}
ExitCodes == {0, 1, 7}          \* codes the child may exit with by itself
ArtifactTexts == {"json", "garbage", "empty"}
Sentinel == 0                   \* None on a queue; chunks are 1, 2, ...

\* ------------------------------------------------------- JSON documents
\* A JSON value is a sequence of strings whose head is its type:
\* <<"str", s>>, <<"list", item, ...>>, <<"dict">>, <<"null">>.
\* A JSON object is a function from its keys to JSON values.
Str(s) == <<"str", s>>
List(items) == <<"list">> \o items
NoDoc == [k \in {} |-> <<"null">>]

RequiredFields == {"version", "task_id", "status", "summary", "outputs", "issues"}
ValidStatuses == {"success", "partial", "failed"}

\* task_id or ""  (request_obj.get("task_id") is None when the key is absent)
TaskIdOrEmpty(task_id) == IF task_id = "None" THEN "" ELSE task_id

\* a writer that forgets the issues it was given
MainFallbackPayloadNoIssues(task_id, summary, issues) ==
    [k \in RequiredFields \cup {"validation", "follow_up", "assumptions_used", "context_used"} |->
        CASE k = "version" -> Str("1.0")
          [] k = "task_id" -> Str(TaskIdOrEmpty(task_id))
          [] k = "status"  -> Str("failed")
          [] k = "summary" -> Str(summary)
          [] OTHER         -> List(<<>>)]

\* write_fallback_response of run_subagent.py: the payload it serialises
MainFallbackPayload(task_id, summary, issues) ==
    [k \in RequiredFields \cup {"validation", "follow_up", "assumptions_used", "context_used"} |->
        CASE k = "version" -> Str("1.0")
          [] k = "task_id" -> Str(TaskIdOrEmpty(task_id))
          [] k = "status"  -> Str("failed")
          [] k = "summary" -> Str(summary)
          [] k = "issues"  -> List(issues)
          [] OTHER         -> List(<<>>)]

\* write_fallback_response of run_subagent_exec.py (bound when `from .lib import`
\* fails), and the hardcoded shape of lib's writer: six fields
HardcodedPayload(task_id, summary, issues) ==
    [k \in RequiredFields |->
        CASE k = "version" -> Str("1.0")
          [] k = "task_id" -> Str(TaskIdOrEmpty(task_id))
          [] k = "status"  -> Str("failed")
          [] k = "summary" -> Str(summary)
          [] k = "issues"  -> List(issues)
          [] OTHER         -> List(<<>>)]

\* ------------------------------------------ the response template (lib)
TemplateKeys == RequiredFields \cup {"notes"}

\* what template_response.json holds for a key it has
TemplateValue(k) ==
    CASE k = "version" -> Str("1.0")
      [] k = "outputs" -> List(<<"path/to/output">>)
      [] k = "issues"  -> List(<<>>)
      [] k = "notes"   -> <<"dict", "hint">>
      [] OTHER         -> Str("")

\* the states of the template source: no .agent/templates directory, no
\* template_response.json in it, a file that is not JSON, a JSON value that is
\* not an object, or an object with some set of keys
TemplateStates ==
    {[state |-> st, obj |-> NoDoc] : st \in {"dir_missing", "file_missing", "bad_json", "non_object"}}
    \cup {[state |-> "object", obj |-> [k \in K |-> TemplateValue(k)]] : K \in SUBSET TemplateKeys}

\* load_response_template: the exception it raises, or "none"
LoadTemplateError(t) ==
    CASE t.state = "dir_missing"  -> "FileNotFoundError"
      [] t.state = "file_missing" -> "FileNotFoundError"
      [] t.state = "bad_json"     -> "JSONDecodeError"
      [] OTHER                    -> "none"

\* get_response_default_values: template.items() of a value that is no dict
DefaultValuesError(t) ==
    IF LoadTemplateError(t) # "none" THEN LoadTemplateError(t)
    ELSE IF t.state = "non_object" THEN "AttributeError"
    ELSE "none"

\* get_response_default_values: scalars as they are, [] for a list, {} for a dict
DefaultValue(v) ==
    IF v[1] = "list" THEN <<"list">> ELSE IF v[1] = "dict" THEN <<"dict">> ELSE v

GetResponseDefaultValues(t) == [k \in DOMAIN t.obj |-> DefaultValue(t.obj[k])]

\* the first exception raised inside the try block of lib's writer
TemplateError(t) ==
    IF LoadTemplateError(t) # "none" THEN LoadTemplateError(t) ELSE DefaultValuesError(t)

\* an except clause that names FileNotFoundError alone
CaughtOnlyFileNotFound(e) == e = "FileNotFoundError"

\* except Exception: catches each of them
CaughtByExcept(e) == e \in {"FileNotFoundError", "JSONDecodeError", "AttributeError"}

\* the payload lib's writer builds from the template
TemplatePayload(t, task_id, summary, issues) ==
    [k \in DOMAIN t.obj \cup {"version", "task_id", "status", "summary", "issues"} |->
        CASE k = "version" -> (IF "version" \in DOMAIN t.obj THEN t.obj["version"] ELSE Str("1.0"))
          [] k = "task_id" -> Str(TaskIdOrEmpty(task_id))
          [] k = "status"  -> Str("failed")
          [] k = "summary" -> Str(summary)
          [] k = "issues"  -> List(issues)
          [] OTHER         -> GetResponseDefaultValues(t)[k]]

\* the summary and the issue lists the classifier passes to the fallback writer
TimeoutSummary == "Subagent timed out after " \o ToString(IdleTimeout) \o "s of no stderr output"
TimeoutIssues == <<"timeout", "no stderr output for " \o ToString(IdleTimeout) \o "s">>
MissingIssues(rc) == <<"missing response.json", "exit code: " \o ToString(rc)>>
InvalidIssues(rc) == <<"invalid json response", "exit code: " \o ToString(rc)>>

\* a parser that accepts every text
JsonParsesAnything(text) == TRUE

\* json.loads(raw_response) succeeds
JsonParses(text) == text = "json"

\* a file at response_path
NoFile == [exists |-> FALSE, author |-> "none", text |-> "empty", doc |-> NoDoc]
ChildFile(text) == [exists |-> TRUE, author |-> "child", text |-> text, doc |-> NoDoc]
FallbackFile(payload) == [exists |-> TRUE, author |-> "supervisor", text |-> "json", doc |-> payload]

\* write_fallback_response of lib/__init__.py: the exception that leaves it
\* (or "none") and the file at response_path afterwards
LibWriteFallback(t, task_id, summary, issues) ==
    IF TemplateError(t) = "none"
    THEN [raised |-> "none", file |-> FallbackFile(TemplatePayload(t, task_id, summary, issues))]
    ELSE IF CaughtByExcept(TemplateError(t))
    THEN [raised |-> "none", file |-> FallbackFile(HardcodedPayload(task_id, summary, issues))]
    ELSE [raised |-> TemplateError(t), file |-> NoFile]

MainWriteFallback(task_id, summary, issues) ==
    [raised |-> "none", file |-> FallbackFile(MainFallbackPayload(task_id, summary, issues))]

ExecWriteFallback(task_id, summary, issues) ==
    [raised |-> "none", file |-> FallbackFile(HardcodedPayload(task_id, summary, issues))]

\* request_obj.get("task_id") of the request being run
RequestTaskId == "t1"

\* response_schema(): the fields the schema handed to the child requires
SchemaFields == RequiredFields \cup {"validation", "follow_up", "assumptions_used", "context_used"}

\* a document that satisfies response_schema()
ConformingDoc ==
    [k \in SchemaFields |->
        CASE k = "version" -> Str("1.0")
          [] k = "task_id" -> Str(RequestTaskId)
          [] k = "status"  -> Str("success")
          [] k = "summary" -> Str("done")
          [] OTHER         -> List(<<>>)]

\* what the child may leave at response_path under each kind of text: the
\* supervisor hands the child the schema but the child is another program, so
\* a text that parses is either a conforming document or some other JSON
\* value (here the object {})
ChildDocs(text) == IF text = "json" THEN {ConformingDoc, NoDoc} ELSE {NoDoc}

\* ------------------------------------------------------------ the state
VARIABLES
    entry,        \* which entry point runs
    pc,           \* position of the supervisor's main thread
    exc,          \* the exception that ended the supervisor, or "none"
    alive,        \* the child process is running
    childCode,    \* the status the child ended with (None while it runs)
    returncode,   \* proc.returncode (None until proc.wait() returned)
    pipe,         \* per stream: data written by the child, not yet read
    wclosed,      \* per stream: the child's end is closed
    emitted,      \* per stream: chunks the child has written
    queue,        \* stdout_queue / stderr_queue
    dpc,          \* per stream: position of its drainer thread
    chunks,       \* stdout_chunks / stderr_chunks
    done,         \* stdout_done / stderr_done
    timed_out,
    last_output,
    now,          \* time.monotonic()
    waitStart,    \* when the current stdout_queue.get(timeout=0.1) began
    artifact,     \* the file at response_path
    pre,          \* the file at response_path as the classifier found it
    stderr_file,  \* stderr.txt
    exit_status,  \* the supervisor's exit code (None until it ends)
    outcome,      \* the classification branch taken
    fallbacks,    \* number of fallback documents written
    warned,       \* a warning was printed
    prev,         \* what an earlier invocation ended with
    fbTemplate,   \* the state of .agent/templates/template_response.json
    fbCall,       \* the arguments of a call of a fallback writer
    fbResult,     \* what that call did
    descendant,   \* a process the child spawned is running
    info,         \* info.json
    stdin,        \* the pipe to the child's input, and whether the child is blocked in a write
    tl,           \* run_tool_loop and the end of execute_subagent_claude
    schema_file   \* the temporary output-schema file exists

childVars == <<alive, childCode, pipe, wclosed, emitted>>
drainVars == <<queue, dpc>>
loopVars == <<chunks, done, timed_out, last_output, waitStart>>
resultVars == <<returncode, artifact, pre, stderr_file, exit_status, outcome, fallbacks, warned>>
otherVars == <<prev, fbTemplate, fbCall, fbResult, descendant, info, stdin, tl, schema_file>>
otherVarsButSchema == <<prev, fbTemplate, fbCall, fbResult, descendant, info, stdin, tl>>
vars == <<entry, pc, exc, now, childVars, drainVars, loopVars, resultVars, otherVars>>

None == -1000     \* Python's None where a number is expected

NoPrev == [ran |-> FALSE, classified |-> FALSE, wrote |-> FALSE, status |-> None]
NoCall == [writer |-> "none", task_id |-> "None", issues |-> <<>>]
NoResult == [raised |-> "none", file |-> NoFile]

\* info.json: absent, or the record write_info_file builds (of its fields the
\* exit code and the start time, which is "t0" for the run being modelled)
NoInfo == [written |-> FALSE, exit_code |-> None, started_at |-> "none"]
InfoRecord(started_at, exit_code) == [written |-> TRUE, exit_code |-> exit_code, started_at |-> started_at]

\* the pipe to the child's input before the prompt is written: nothing sent,
\* nothing in the pipe, the child not blocked in a write ("no", else the stream)
NoStdin == [sent |-> 0, inpipe |-> 0, blocked |-> "no"]

\* run_tool_loop on entry: messages holds the user message, nothing else has
\* happened. Blocks are records of a type, an id (0 where the block has
\* none) and a content.
PromptBlock == [type |-> "text", id |-> 0, content |-> "user_message"]
NoResponse == [stop_reason |-> "none", content |-> <<>>]
NoToolLoop ==
    [pc |-> "call", iteration |-> 0, api_calls_count |-> 0,
     messages |-> <<[role |-> "user", content |-> <<PromptBlock>>]>>,
     tool_results |-> <<>>, response |-> NoResponse, idx |-> 0,
     assistant_message |-> <<>>, user_message_blocks |-> <<>>,
     raised |-> FALSE, end_turn |-> FALSE,
     result |-> [status |-> "none"], doc |-> NoDoc, exit_code |-> None]

\* the names execute_subagent calls that its module has bound: the try branch
\* (from .lib import ...) would bind the five helpers, the except branch binds
\* json, datetime, timezone and four helpers, write_info_file not among them
BoundByTry == {"default_codex_cmd", "load_prompt", "build_prompt", "write_info_file", "write_fallback_response"}
BoundByExcept == {"json", "datetime", "timezone", "default_codex_cmd", "load_prompt", "build_prompt", "write_fallback_response"}

\* `from .lib import ...` raises ImportError: run_subagent_exec.py lies in
\* lib/modules, which has no module lib, and run as a script it has no parent
\* package
RelativeImportFails == TRUE

ExecBound == IF RelativeImportFails THEN BoundByExcept ELSE BoundByTry

\* the prelude of execute_subagent uses datetime and timezone (line 123) and
\* then write_info_file (line 126)
PreludeNames == <<"datetime", "timezone", "write_info_file">>
CompleteTemplate == [state |-> "object", obj |-> [k \in RequiredFields |-> TemplateValue(k)]]

\* the state of one invocation before its first step
RunInit(e, a) ==
    /\ entry = e
    /\ pc = "start"
    /\ exc = "none"
    /\ alive = FALSE
    /\ childCode = None
    /\ returncode = None
    /\ pipe = [s \in Streams |-> <<>>]
    /\ wclosed = [s \in Streams |-> FALSE]
    /\ emitted = [s \in Streams |-> 0]
    /\ queue = [s \in Streams |-> <<>>]
    /\ dpc = [s \in Streams |-> "idle"]
    /\ chunks = [s \in Streams |-> <<>>]
    /\ done = [s \in Streams |-> FALSE]
    /\ timed_out = FALSE
    /\ last_output = 0
    /\ now = 0
    /\ waitStart = 0
    /\ artifact = a
    /\ pre = NoFile
    /\ stderr_file = [written |-> FALSE, chunks |-> <<>>, notice |-> FALSE]
    /\ exit_status = None
    /\ outcome = "none"
    /\ fallbacks = 0
    /\ warned = FALSE

\* response_path before the run: absent, or the document of an earlier run
InitialArtifacts == {NoFile, [ChildFile("json") EXCEPT !.author = "earlier run", !.doc = ConformingDoc]}

Init ==
    /\ \E e \in Entries, a \in InitialArtifacts : RunInit(e, a)
    /\ prev = NoPrev
    /\ fbTemplate = CompleteTemplate
    /\ fbCall = NoCall
    /\ fbResult = NoResult
    /\ descendant = FALSE
    /\ info = NoInfo
    /\ stdin = NoStdin
    /\ tl = NoToolLoop
    /\ schema_file = FALSE

\* ---------------------------------------------------------- the child
\* The child is the environment: it may write to either stream, close a
\* stream, write the artifact, and exit with any code, in any order.
\* What a stream carries is cut into blocks of 1024 characters, the unit of
\* stream.read(1024): block k is k in the pipe once the child has written all
\* of it and -k while the child has written only part of it. Only the last
\* block of a pipe can be partial.
LastPartial(p) == p # <<>> /\ p[Len(p)] < 0

\* the child writes up to the end of a block: the partial one if there is
\* one, a new one otherwise
ChildEmit(s) ==
    /\ alive /\ ~wclosed[s]
    /\ IF LastPartial(pipe[s])
         THEN /\ pipe' = [pipe EXCEPT ![s] = [@ EXCEPT ![Len(@)] = 0 - @]]
              /\ UNCHANGED emitted
         ELSE /\ emitted[s] < MaxChunks
              /\ pipe' = [pipe EXCEPT ![s] = Append(@, emitted[s] + 1)]
              /\ emitted' = [emitted EXCEPT ![s] = @ + 1]
    /\ UNCHANGED <<otherVars, entry, pc, exc, now, alive, childCode, wclosed, drainVars, loopVars, resultVars>>

\* the child writes less than what fills a block (a line, say) and flushes;
\* further short writes into the same block change nothing here
ChildEmitShort(s) ==
    /\ alive /\ ~wclosed[s] /\ emitted[s] < MaxChunks
    /\ ~LastPartial(pipe[s])
    /\ pipe' = [pipe EXCEPT ![s] = Append(@, 0 - (emitted[s] + 1))]
    /\ emitted' = [emitted EXCEPT ![s] = @ + 1]
    /\ UNCHANGED <<otherVars, entry, pc, exc, now, alive, childCode, wclosed, drainVars, loopVars, resultVars>>

ChildClose(s) ==
    /\ alive /\ ~wclosed[s]
    /\ wclosed' = [wclosed EXCEPT ![s] = TRUE]
    /\ UNCHANGED <<otherVars, entry, pc, exc, now, alive, childCode, pipe, emitted, drainVars, loopVars, resultVars>>

ChildWriteArtifact(text, d) ==
    /\ alive /\ artifact.author # "child"
    /\ artifact' = [ChildFile(text) EXCEPT !.doc = d]
    /\ UNCHANGED <<otherVars, entry, pc, exc, now, childVars, drainVars, loopVars,
                   returncode, pre, stderr_file, exit_status, outcome, fallbacks, warned>>

ChildExit(code) ==
    /\ alive
    /\ alive' = FALSE
    /\ childCode' = code
    /\ wclosed' = [s \in Streams |-> TRUE]
    /\ UNCHANGED <<otherVars, entry, pc, exc, now, pipe, emitted, drainVars, loopVars, resultVars>>

\* a kill that leaves the child running
KilledAliveStill == TRUE

\* proc.kill(): SIGKILL; the status of a killed child is -9, and kill() on a
\* child that has already exited changes nothing
KilledAlive == FALSE
KilledCode(a, code) == IF a THEN -9 ELSE code

\* ------------------------------------------------------- the launcher
\* main, up to and including subprocess.Popen
StartMain ==
    /\ pc = "start" /\ entry = "main"
    /\ stderr_file' = [written |-> TRUE, chunks |-> <<>>, notice |-> FALSE]
    /\ schema_file' = TRUE
    /\ alive' = TRUE
    /\ pc' = "send_prompt"
    /\ UNCHANGED <<otherVarsButSchema, entry, exc, now, childCode, pipe, wclosed, emitted, drainVars, loopVars,
                   returncode, artifact, pre, exit_status, outcome, fallbacks, warned>>

\* execute_subagent: the module binds write_info_file only when `from .lib
\* import ...` succeeds and datetime only when it fails, so the prelude raises
\* NameError before the child is spawned
StartExec ==
    /\ pc = "start" /\ entry = "exec"
    /\ \E i \in 1..Len(PreludeNames) : PreludeNames[i] \notin ExecBound
    /\ pc' = "crashed"
    /\ exc' = "NameError"
    /\ exit_status' = 1
    /\ UNCHANGED <<otherVars, entry, now, childVars, drainVars, loopVars,
                   returncode, artifact, pre, stderr_file, outcome, fallbacks, warned>>

\* proc.stdin.write(prompt); proc.stdin.close() succeed; the drainers start
SendPromptOK ==
    /\ pc = "send_prompt" /\ alive
    /\ dpc' = [s \in Streams |-> "reading"]
    /\ last_output' = now
    /\ waitStart' = now
    /\ pc' = "get_stdout"
    /\ UNCHANGED <<otherVars, entry, exc, now, childVars, queue, chunks, done, timed_out, resultVars>>

\* the write or the close raises (the child has exited, or runs on with its
\* input closed: the model keeps no state of that pipe): proc.kill(); raise
SendPromptFail ==
    /\ pc = "send_prompt"
    /\ pc' = "crashed"
    /\ exc' = "BrokenPipeError"
    /\ exit_status' = 1
    /\ alive' = KilledAlive
    /\ childCode' = KilledCode(alive, childCode)
    /\ UNCHANGED <<otherVars, entry, now, pipe, wclosed, emitted, drainVars, loopVars,
                   returncode, artifact, pre, stderr_file, outcome, fallbacks, warned>>

\* -------------------------------------------------------- the drainers
\* a read that returns whatever has arrived
ReadReturnsAtOnce(p, closed) == p # <<>>

\* stream.read(1024) on a pipe opened with text=True: TextIOWrapper.read(n)
\* keeps reading until it has n characters or reaches end-of-stream, so it
\* returns a whole block, or what there is of the last one once the stream
\* has ended
ReadReturns(p, closed) == p # <<>> /\ (Head(p) > 0 \/ closed)

\* the block a read returns, whole or not
Block(b) == IF b < 0 THEN 0 - b ELSE b

\* a reader that looks at the other stream before it takes its own block
DrainReadCoupled(s) ==
    /\ dpc[s] = "reading" /\ pipe[s] # <<>> /\ (Head(pipe[s]) > 0 \/ wclosed[s])
    /\ \A t \in Streams \ {s} : pipe[t] # <<>> \/ wclosed[t]
    /\ queue' = [queue EXCEPT ![s] = Append(@, IF Head(pipe[s]) < 0 THEN 0 - Head(pipe[s]) ELSE Head(pipe[s]))]
    /\ pipe' = [pipe EXCEPT ![s] = Tail(@)]
    /\ UNCHANGED <<otherVars, entry, pc, exc, now, alive, childCode, wclosed, emitted, dpc, loopVars, resultVars>>

\* a drainer that puts what it read on the queue of the other stream
DrainReadCross(s) ==
    /\ dpc[s] = "reading" /\ pipe[s] # <<>> /\ (Head(pipe[s]) > 0 \/ wclosed[s])
    /\ queue' = [t \in Streams |-> IF t = s THEN queue[t]
                                   ELSE Append(queue[t], IF Head(pipe[s]) < 0 THEN 0 - Head(pipe[s]) ELSE Head(pipe[s]))]
    /\ pipe' = [pipe EXCEPT ![s] = Tail(@)]
    /\ UNCHANGED <<otherVars, entry, pc, exc, now, alive, childCode, wclosed, emitted, dpc, loopVars, resultVars>>

\* read_stream: chunk = stream.read(1024); out_queue.put(chunk)
DrainRead(s) ==
    /\ dpc[s] = "reading" /\ ReadReturns(pipe[s], wclosed[s])
    /\ queue' = [queue EXCEPT ![s] = Append(@, Block(Head(pipe[s])))]
    /\ pipe' = [pipe EXCEPT ![s] = Tail(@)]
    /\ UNCHANGED <<otherVars, entry, pc, exc, now, alive, childCode, wclosed, emitted, dpc, loopVars, resultVars>>

\* a drainer that ends without putting the sentinel
DrainEOFSilent(s) ==
    /\ dpc[s] = "reading" /\ pipe[s] = <<>> /\ wclosed[s]
    /\ dpc' = [dpc EXCEPT ![s] = "done"]
    /\ UNCHANGED <<otherVars, entry, pc, exc, now, childVars, queue, loopVars, resultVars>>

\* read_stream: an empty read is end-of-stream; finally: out_queue.put(None)
DrainEOF(s) ==
    /\ dpc[s] = "reading" /\ pipe[s] = <<>> /\ wclosed[s]
    /\ queue' = [queue EXCEPT ![s] = Append(@, Sentinel)]
    /\ dpc' = [dpc EXCEPT ![s] = "done"]
    /\ UNCHANGED <<otherVars, entry, pc, exc, now, childVars, loopVars, resultVars>>

\* -------------------------------------------------------- the watchdog
InLoop == pc \in {"get_stdout", "get_stderr", "check"}

\* time passes while the watchdog loop runs
Tick ==
    /\ InLoop /\ now < MaxTime
    /\ now' = now + 1
    /\ UNCHANGED <<otherVars, entry, pc, exc, childVars, drainVars, loopVars, resultVars>>

\* an output chunk that counts as activity
WdStdoutItemResets ==
    /\ pc = "get_stdout" /\ queue["out"] # <<>>
    /\ IF Head(queue["out"]) = Sentinel
         THEN done' = [done EXCEPT !["out"] = TRUE] /\ UNCHANGED <<chunks, last_output>>
         ELSE /\ chunks' = [chunks EXCEPT !["out"] = Append(@, Head(queue["out"]))]
              /\ last_output' = now
              /\ UNCHANGED done
    /\ queue' = [queue EXCEPT !["out"] = Tail(@)]
    /\ pc' = "get_stderr"
    /\ UNCHANGED <<otherVars, entry, exc, now, childVars, dpc, timed_out, waitStart, resultVars>>

\* item = stdout_queue.get(timeout=0.1) returns an item
WdStdoutItem ==
    /\ pc = "get_stdout" /\ queue["out"] # <<>>
    /\ IF Head(queue["out"]) = Sentinel
         THEN done' = [done EXCEPT !["out"] = TRUE] /\ UNCHANGED chunks
         ELSE chunks' = [chunks EXCEPT !["out"] = Append(@, Head(queue["out"]))] /\ UNCHANGED done
    /\ queue' = [queue EXCEPT !["out"] = Tail(@)]
    /\ pc' = "get_stderr"
    /\ UNCHANGED <<otherVars, entry, exc, now, childVars, dpc, timed_out, last_output, waitStart, resultVars>>

\* a bounded wait that lasts one poll interval longer
WaitExpiredLate(t, ws) == t - ws > PollInterval

\* the bounded wait begun at ws has lasted its timeout at time t
WaitExpired(t, ws) == t - ws >= PollInterval

\* stdout_queue.get(timeout=0.1) raises Empty after the poll interval
WdStdoutEmpty ==
    /\ pc = "get_stdout" /\ queue["out"] = <<>>
    /\ WaitExpired(now, waitStart)
    /\ pc' = "get_stderr"
    /\ UNCHANGED <<otherVars, entry, exc, now, childVars, drainVars, loopVars, resultVars>>

\* a watchdog that empties the diagnostic queue before it goes on
WdStderrItemAgain ==
    /\ pc = "get_stderr" /\ queue["err"] # <<>>
    /\ IF Head(queue["err"]) = Sentinel
         THEN done' = [done EXCEPT !["err"] = TRUE] /\ UNCHANGED <<chunks, last_output>>
         ELSE /\ chunks' = [chunks EXCEPT !["err"] = Append(@, Head(queue["err"]))]
              /\ last_output' = now
              /\ UNCHANGED done
    /\ queue' = [queue EXCEPT !["err"] = Tail(@)]
    /\ pc' = IF Tail(queue["err"]) = <<>> THEN "check" ELSE "get_stderr"
    /\ UNCHANGED <<otherVars, entry, exc, now, childVars, dpc, timed_out, waitStart, resultVars>>

\* item = stderr_queue.get_nowait() returns an item
WdStderrItem ==
    /\ pc = "get_stderr" /\ queue["err"] # <<>>
    /\ IF Head(queue["err"]) = Sentinel
         THEN done' = [done EXCEPT !["err"] = TRUE] /\ UNCHANGED <<chunks, last_output>>
         ELSE /\ chunks' = [chunks EXCEPT !["err"] = Append(@, Head(queue["err"]))]
              /\ last_output' = now
              /\ UNCHANGED done
    /\ queue' = [queue EXCEPT !["err"] = Tail(@)]
    /\ pc' = "check"
    /\ UNCHANGED <<otherVars, entry, exc, now, childVars, dpc, timed_out, waitStart, resultVars>>

\* stderr_queue.get_nowait() raises Empty
WdStderrEmpty ==
    /\ pc = "get_stderr" /\ queue["err"] = <<>>
    /\ pc' = "check"
    /\ UNCHANGED <<otherVars, entry, exc, now, childVars, drainVars, loopVars, resultVars>>

\* a loop that ends on the first sentinel
EitherDone(d) == d["out"] \/ d["err"]

\* if stdout_done and stderr_done
BothDone(d) == d["out"] /\ d["err"]

\* a watchdog without a deadline
IdleExceededNever(t, last) == FALSE

\* the deadline test off by one poll interval
IdleExceededLate(t, last) == t - last > IdleTimeout + 1

\* the deadline test with >= in place of >
IdleExceededAtDeadline(t, last) == t - last >= IdleTimeout

\* if time.monotonic() - last_output > idle_timeout
IdleExceeded(t, last) == t - last > IdleTimeout

\* the deadline test placed before the test of the two flags
WdTimeoutFirst ==
    /\ pc = "check" /\ IdleExceeded(now, last_output)
    /\ timed_out' = TRUE
    /\ alive' = KilledAlive
    /\ childCode' = KilledCode(alive, childCode)
    /\ wclosed' = [s \in Streams |-> TRUE]
    /\ pc' = "wait"
    /\ UNCHANGED <<otherVars, entry, exc, now, pipe, emitted, drainVars, chunks, done, last_output, waitStart, resultVars>>

\* if stdout_done and stderr_done: break
WdBothDone ==
    /\ pc = "check" /\ BothDone(done)
    /\ pc' = "wait"
    /\ UNCHANGED <<otherVars, entry, exc, now, childVars, drainVars, loopVars, resultVars>>

\* timed_out = True; proc.kill(); break
WdTimeout ==
    /\ pc = "check" /\ ~BothDone(done) /\ IdleExceeded(now, last_output)
    /\ timed_out' = TRUE
    /\ alive' = KilledAlive
    /\ childCode' = KilledCode(alive, childCode)
    /\ wclosed' = [s \in Streams |-> TRUE]
    /\ pc' = "wait"
    /\ UNCHANGED <<otherVars, entry, exc, now, pipe, emitted, drainVars, chunks, done, last_output, waitStart, resultVars>>

WdContinue ==
    /\ pc = "check" /\ ~BothDone(done) /\ ~IdleExceeded(now, last_output)
    /\ pc' = "get_stdout"
    /\ waitStart' = now
    /\ UNCHANGED <<otherVars, entry, exc, now, childVars, drainVars, chunks, done, timed_out, last_output, resultVars>>

\* proc.wait() returns once the child has ended
ProcWait ==
    /\ pc = "wait" /\ ~alive
    /\ returncode' = childCode
    /\ pc' = "persist"
    /\ UNCHANGED <<otherVars, entry, exc, now, childVars, drainVars, loopVars,
                   artifact, pre, stderr_file, exit_status, outcome, fallbacks, warned>>

\* ------------------------------------------------------ the classifier
\* stderr_text = "".join(stderr_chunks), plus the notice on a timeout;
\* stderr_path.write_text(stderr_text)
StderrText(cs, to) == [written |-> TRUE, chunks |-> cs, notice |-> to]

PersistStderr ==
    /\ pc = "persist"
    /\ stderr_file' = StderrText(chunks["err"], timed_out)
    /\ pre' = artifact
    /\ pc' = "classify"
    /\ UNCHANGED <<otherVars, entry, exc, now, childVars, drainVars, loopVars,
                   returncode, artifact, exit_status, outcome, fallbacks, warned>>

\* a failure path that forwards the child's status instead of the fixed 1
EndWithFallbackForwarding(kind, payload, status) ==
    /\ artifact' = FallbackFile(payload)
    /\ fallbacks' = fallbacks + 1
    /\ outcome' = kind
    /\ exit_status' = returncode
    /\ pc' = "done"
    /\ UNCHANGED <<otherVars, entry, exc, now, childVars, drainVars, loopVars,
                   returncode, pre, stderr_file, warned>>

\* schema_path.unlink(missing_ok=True): the file is gone
Unlinked == FALSE

\* a failure path that writes the fallback document and starts over
EndWithFallbackRetrying(kind, payload, status) ==
    /\ artifact' = FallbackFile(payload)
    /\ fallbacks' = fallbacks + 1
    /\ outcome' = kind
    /\ exit_status' = status
    /\ pc' = "start"
    /\ UNCHANGED <<otherVarsButSchema, entry, exc, now, childVars, drainVars, loopVars,
                   returncode, pre, stderr_file, warned>>

\* the supervisor ends with `status` after writing a fallback document
EndWithFallback(kind, payload, status) ==
    /\ artifact' = FallbackFile(payload)
    /\ fallbacks' = fallbacks + 1
    /\ outcome' = kind
    /\ exit_status' = status
    /\ pc' = "done"
    /\ UNCHANGED <<otherVarsButSchema, entry, exc, now, childVars, drainVars, loopVars,
                   returncode, pre, stderr_file, warned>>

\* if timed_out: write_fallback_response(...); raise SystemExit(1)
ClassifyTimeout ==
    /\ pc = "classify" /\ timed_out
    /\ EndWithFallback("Timeout",
          MainFallbackPayload(RequestTaskId, TimeoutSummary, TimeoutIssues), 1)
    /\ UNCHANGED schema_file

\* if proc.returncode != 0 and stderr_text.strip(): print(warning)
WarnsNonZero(rc, text) == rc # 0 /\ text.chunks # <<>>

\* the broken test reached whatever the child's exit code
StripRaisesAlways(e, rc) == e = "main"

\* if proc.returncode != 0 and proc.stderr.strip(): proc.stderr is the pipe's
\* TextIOWrapper, which has no strip: AttributeError (run_subagent.py only)
StripRaises(e, rc) == e = "main" /\ rc # 0

NonZeroCheckPass ==
    /\ pc = "classify" /\ ~timed_out /\ ~StripRaises(entry, returncode)
    /\ warned' = WarnsNonZero(returncode, stderr_file)
    /\ pc' = "read"
    /\ UNCHANGED <<otherVars, entry, exc, now, childVars, drainVars, loopVars,
                   returncode, artifact, pre, stderr_file, exit_status, outcome, fallbacks>>

NonZeroCheckRaises ==
    /\ pc = "classify" /\ ~timed_out /\ StripRaises(entry, returncode)
    /\ warned' = WarnsNonZero(returncode, stderr_file)
    /\ pc' = "crashed"
    /\ exc' = "AttributeError"
    /\ exit_status' = 1
    /\ UNCHANGED <<otherVars, entry, now, childVars, drainVars, loopVars,
                   returncode, artifact, pre, stderr_file, outcome, fallbacks>>

\* response_path.read_text() raises FileNotFoundError
ReadMissing ==
    /\ pc = "read" /\ ~artifact.exists
    /\ EndWithFallback("MissingOutput",
          MainFallbackPayload(RequestTaskId, "Codex did not produce response.json", MissingIssues(returncode)), 1)
    /\ schema_file' = Unlinked

\* the read succeeds; finally: schema_path.unlink(missing_ok=True)
ReadFound ==
    /\ pc = "read" /\ artifact.exists
    /\ pc' = "parse"
    /\ schema_file' = Unlinked
    /\ UNCHANGED <<otherVarsButSchema, entry, exc, now, childVars, drainVars, loopVars, resultVars>>

\* json.loads(raw_response) raises JSONDecodeError
ParseInvalid ==
    /\ pc = "parse" /\ ~JsonParses(artifact.text)
    /\ EndWithFallback("InvalidOutput",
          MainFallbackPayload(RequestTaskId, "Codex returned invalid JSON", InvalidIssues(returncode)), 1)
    /\ UNCHANGED schema_file

\* if proc.returncode != 0: raise SystemExit(proc.returncode); else main returns
PassThroughStatus(rc) == rc

PassThrough ==
    /\ pc = "parse" /\ JsonParses(artifact.text)
    /\ outcome' = "PassThrough"
    /\ exit_status' = PassThroughStatus(returncode)
    /\ pc' = "done"
    /\ UNCHANGED <<otherVars, entry, exc, now, childVars, drainVars, loopVars,
                   returncode, artifact, pre, stderr_file, fallbacks, warned>>

\* ------------------------------------------------- the specification
Next ==
    \/ StartMain \/ StartExec \/ SendPromptOK \/ SendPromptFail
    \/ \E s \in Streams : ChildEmit(s) \/ ChildEmitShort(s) \/ ChildClose(s) \/ DrainRead(s) \/ DrainEOF(s)
    \/ \E t \in ArtifactTexts : \E d \in ChildDocs(t) : ChildWriteArtifact(t, d)
    \/ \E c \in ExitCodes : ChildExit(c)
    \/ Tick
    \/ WdStdoutItem \/ WdStdoutEmpty \/ WdStderrItem \/ WdStderrEmpty
    \/ WdBothDone \/ WdTimeout \/ WdContinue
    \/ ProcWait \/ PersistStderr
    \/ ClassifyTimeout \/ NonZeroCheckPass \/ NonZeroCheckRaises
    \/ ReadMissing \/ ReadFound \/ ParseInvalid \/ PassThrough

Spec == Init /\ [][Next]_vars

\* ------------------------------------------------------ measured time
\* The same program with time measured: the only place where the watchdog
\* waits is stdout_queue.get(timeout=0.1) on an empty queue, so time passes
\* there and nowhere else, and no longer than the timeout of that wait. The
\* clock stays within one deadline of the last diagnostic chunk, and the child
\* writes at most MaxChunks of them, so TimeCap is never what stops it
\* (ClockBelowCap).
TimeCap == (MaxChunks + 1) * (IdleTimeout + PollInterval)

TickBlocked ==
    /\ pc = "get_stdout" /\ queue["out"] = <<>>
    /\ ~WaitExpired(now, waitStart)
    /\ now < TimeCap
    /\ now' = now + 1
    /\ UNCHANGED <<otherVars, entry, pc, exc, childVars, drainVars, loopVars, resultVars>>

NextTimed ==
    \/ StartMain \/ StartExec \/ SendPromptOK \/ SendPromptFail
    \/ \E s \in Streams : ChildEmit(s) \/ ChildEmitShort(s) \/ ChildClose(s) \/ DrainRead(s) \/ DrainEOF(s)
    \/ \E t \in ArtifactTexts : \E d \in ChildDocs(t) : ChildWriteArtifact(t, d)
    \/ \E c \in ExitCodes : ChildExit(c)
    \/ TickBlocked
    \/ WdStdoutItem \/ WdStdoutEmpty \/ WdStderrItem \/ WdStderrEmpty
    \/ WdBothDone \/ WdTimeout \/ WdContinue
    \/ ProcWait \/ PersistStderr
    \/ ClassifyTimeout \/ NonZeroCheckPass \/ NonZeroCheckRaises
    \/ ReadMissing \/ ReadFound \/ ParseInvalid \/ PassThrough

SpecTimed == Init /\ [][NextTimed]_vars

\* whenever the watchdog is waiting the clock may still advance
ClockBelowCap ==
    (pc = "get_stdout" /\ queue["out"] = <<>> /\ ~WaitExpired(now, waitStart)) => now < TimeCap

\* the main thread (the watchdog loop, then proc.wait()), each drainer thread
\* and the clock keep running; the child is under no obligation
WatchdogStep ==
    \/ WdStdoutItem \/ WdStdoutEmpty \/ WdStderrItem \/ WdStderrEmpty
    \/ WdBothDone \/ WdTimeout \/ WdContinue

DrainerStep(s) == DrainRead(s) \/ DrainEOF(s)

\* The watchdog loop by itself, from the launch to proc.wait(): main with no
\* artifact at response_path and a child that leaves none (nothing in the loop
\* reads response_path).
InitLoop ==
    /\ RunInit("main", NoFile)
    /\ prev = NoPrev
    /\ fbTemplate = CompleteTemplate
    /\ fbCall = NoCall
    /\ fbResult = NoResult
    /\ descendant = FALSE
    /\ info = NoInfo
    /\ stdin = NoStdin
    /\ tl = NoToolLoop
    /\ schema_file = FALSE

NextLoop ==
    \/ StartMain \/ SendPromptOK \/ SendPromptFail
    \/ \E s \in Streams : ChildEmit(s) \/ ChildEmitShort(s) \/ ChildClose(s) \/ DrainRead(s) \/ DrainEOF(s)
    \/ \E c \in ExitCodes : ChildExit(c)
    \/ TickBlocked
    \/ WatchdogStep
    \/ ProcWait

SpecLoopFair ==
    /\ InitLoop /\ [][NextLoop]_vars
    /\ WF_vars(WatchdogStep)
    /\ WF_vars(ProcWait)
    /\ WF_vars(TickBlocked)
    /\ \A s \in Streams : WF_vars(DrainerStep(s))

\* ------------------------------------------------ pipes of bounded capacity
\* The three pipes of Popen hold a bounded amount. proc.stdin.write(prompt)
\* runs on the main thread before the reader threads exist: it hands the
\* prompt to the pipe block by block and waits while the pipe is full. A
\* child's write to a full output or diagnostic pipe waits the same way, and a
\* waiting child does nothing else. Here the child writes whole blocks, up to
\* one more than a pipe holds, and it exits of its own accord.
PipeCap == 1
PromptBlocks == 2
MaxWrites == MaxChunks + 1

\* proc.stdin.write(prompt): one more block goes into the pipe
WritePrompt ==
    /\ pc = "send_prompt" /\ alive
    /\ stdin.sent < PromptBlocks /\ stdin.inpipe < PipeCap
    /\ stdin' = [stdin EXCEPT !.sent = @ + 1, !.inpipe = @ + 1]
    /\ UNCHANGED <<prev, fbTemplate, fbCall, fbResult, descendant, info, tl, schema_file,
                   entry, pc, exc, now, childVars, drainVars, loopVars, resultVars>>

\* the whole prompt is in the pipe: proc.stdin.close(), the threads start
PromptDone == stdin.sent = PromptBlocks /\ SendPromptOK

\* the child is gone: the write raises, proc.kill(), raise
PromptFail == ~alive /\ SendPromptFail

\* the child reads a block of its input
ChildReadInput ==
    /\ alive /\ stdin.blocked = "no" /\ stdin.inpipe > 0
    /\ stdin' = [stdin EXCEPT !.inpipe = @ - 1]
    /\ UNCHANGED <<prev, fbTemplate, fbCall, fbResult, descendant, info, tl, schema_file,
                   entry, pc, exc, now, childVars, drainVars, loopVars, resultVars>>

\* the child writes a block to a stream: into the pipe if there is room,
\* else the child waits in the write
ChildWrite(s) ==
    /\ alive /\ stdin.blocked = "no" /\ ~wclosed[s] /\ emitted[s] < MaxWrites
    /\ IF Len(pipe[s]) < PipeCap
         THEN /\ pipe' = [pipe EXCEPT ![s] = Append(@, emitted[s] + 1)]
              /\ emitted' = [emitted EXCEPT ![s] = @ + 1]
              /\ UNCHANGED stdin
         ELSE /\ stdin' = [stdin EXCEPT !.blocked = s]
              /\ UNCHANGED <<pipe, emitted>>
    /\ UNCHANGED <<prev, fbTemplate, fbCall, fbResult, descendant, info, tl, schema_file,
                   entry, pc, exc, now, alive, childCode, wclosed, drainVars, loopVars, resultVars>>

\* the pipe has room again: the waiting write completes
ChildUnblock(s) ==
    /\ alive /\ stdin.blocked = s /\ Len(pipe[s]) < PipeCap
    /\ pipe' = [pipe EXCEPT ![s] = Append(@, emitted[s] + 1)]
    /\ emitted' = [emitted EXCEPT ![s] = @ + 1]
    /\ stdin' = [stdin EXCEPT !.blocked = "no"]
    /\ UNCHANGED <<prev, fbTemplate, fbCall, fbResult, descendant, info, tl, schema_file,
                   entry, pc, exc, now, alive, childCode, wclosed, drainVars, loopVars, resultVars>>

ChildRuns(c) == stdin.blocked = "no" /\ ChildExit(c)

ChildResponds(t, d) == stdin.blocked = "no" /\ ChildWriteArtifact(t, d)

ChildStep ==
    \/ ChildReadInput
    \/ \E s \in Streams : ChildWrite(s) \/ ChildUnblock(s)
    \/ \E t \in ArtifactTexts : \E d \in ChildDocs(t) : ChildResponds(t, d)
    \/ \E c \in ExitCodes : ChildRuns(c)

\* time passes in the bounded wait of the watchdog, as in TickBlocked; the
\* clock stays within one deadline of the last of at most MaxWrites
\* diagnostic blocks
PipesTimeCap == (MaxWrites + 1) * (IdleTimeout + PollInterval)

TickPipes ==
    /\ pc = "get_stdout" /\ queue["out"] = <<>>
    /\ ~WaitExpired(now, waitStart)
    /\ now < PipesTimeCap
    /\ now' = now + 1
    /\ UNCHANGED <<otherVars, entry, pc, exc, childVars, drainVars, loopVars, resultVars>>

\* the main thread from the launch to the end of the classifier
MainStep ==
    \/ StartMain \/ WritePrompt \/ PromptDone \/ PromptFail
    \/ WatchdogStep
    \/ ProcWait \/ PersistStderr
    \/ ClassifyTimeout \/ NonZeroCheckPass \/ NonZeroCheckRaises
    \/ ReadMissing \/ ReadFound \/ ParseInvalid \/ PassThrough

NextPipes ==
    \/ MainStep
    \/ ChildStep
    \/ \E s \in Streams : DrainRead(s) \/ DrainEOF(s)
    \/ TickPipes

\* every thread of the supervisor is scheduled, time passes, and the child is
\* one that keeps running and exits whenever it is not waiting in a write
SpecPipesFair ==
    /\ InitLoop /\ [][NextPipes]_vars
    /\ WF_vars(MainStep)
    /\ WF_vars(TickPipes)
    /\ \A s \in Streams : WF_vars(DrainerStep(s))
    /\ WF_vars(ChildStep)
    /\ WF_vars(\E c \in ExitCodes : ChildRuns(c))

\* ------------------------------------------------------- the tool loop
\* run_tool_loop(client, model, system_prompt, user_message, max_iterations)
\* and what execute_subagent_claude does with its result. The API is the
\* environment: a call raises or returns a response with a stop reason and up
\* to MaxBlocks content blocks, whose tool_use blocks carry fresh ids. A tool
\* gives a value or an error value (execute_tool catches what a tool raises).
MaxIterations == 2
MaxBlocks == 2
StopReasons == {"end_turn", "tool_use", "max_tokens"}
BlockTypes == {"text", "tool_use", "other"}
ToolOutcomes == {"value", "error"}

\* the id of block i of the response to call n
BlockId(n, i) == (n - 1) * MaxBlocks + i

Contents(n) ==
    UNION {{[i \in 1..len |-> [type |-> ty[i],
                                 id |-> IF ty[i] = "tool_use" THEN BlockId(n, i) ELSE 0,
                                 content |-> ty[i]]] :
              ty \in [1..len -> BlockTypes]} : len \in 0..MaxBlocks}

Responses(n) == {[stop_reason |-> r, content |-> c] : r \in StopReasons, c \in Contents(n)}

\* an exhausted loop reported as a success
PartialAsSuccess(results) == [status |-> "success", summary |-> "Maximum iterations reached", tool_results |-> results]

\* the dictionaries run_tool_loop returns
FailedResult(results) == [status |-> "failed", error |-> "API call failed", tool_results |-> results]
SuccessResult(results) == [status |-> "success", summary |-> "final_text", tool_results |-> results]
PartialResult(results) == [status |-> "partial", summary |-> "Maximum iterations reached", tool_results |-> results]

\* client.messages.create(...) raises: return {"status": "failed", ...}
ApiRaises ==
    /\ tl.pc = "call" /\ tl.iteration < MaxIterations
    /\ tl' = [tl EXCEPT !.raised = TRUE, !.pc = "returned",
                         !.result = FailedResult(tl.tool_results)]
    /\ UNCHANGED <<prev, fbTemplate, fbCall, fbResult, descendant, info, stdin, schema_file,
                   entry, pc, exc, now, childVars, drainVars, loopVars, resultVars>>

\* client.messages.create(...) returns: api_calls_count += 1; on end_turn
\* return {"status": "success", ...}, else start on the content blocks
ApiResponds(resp) ==
    /\ tl.pc = "call" /\ tl.iteration < MaxIterations
    /\ tl' = IF resp.stop_reason = "end_turn"
               THEN [tl EXCEPT !.api_calls_count = @ + 1, !.response = resp, !.end_turn = TRUE,
                               !.pc = "returned", !.result = SuccessResult(tl.tool_results)]
               ELSE [tl EXCEPT !.api_calls_count = @ + 1, !.response = resp,
                               !.pc = "blocks", !.idx = 1,
                               !.assistant_message = <<>>, !.user_message_blocks = <<>>]
    /\ UNCHANGED <<prev, fbTemplate, fbCall, fbResult, descendant, info, stdin, schema_file,
                   entry, pc, exc, now, childVars, drainVars, loopVars, resultVars>>

\* a loop that queues no tool_result block for a tool that gave an error
ProcessBlockUnanswered(tool_result) ==
    /\ tl.pc = "blocks" /\ tl.idx <= Len(tl.response.content)
    /\ LET block == tl.response.content[tl.idx] IN
         tl' = CASE block.type = "text" ->
                      [tl EXCEPT !.idx = @ + 1, !.assistant_message = Append(@, block)]
                 [] block.type = "tool_use" ->
                      [tl EXCEPT !.idx = @ + 1,
                                 !.assistant_message = Append(@, block),
                                 !.tool_results = Append(@, [id |-> block.id, result |-> tool_result]),
                                 !.user_message_blocks =
                                     IF tool_result = "error" THEN @
                                     ELSE Append(@, [type |-> "tool_result", id |-> block.id, content |-> tool_result])]
                 [] OTHER -> [tl EXCEPT !.idx = @ + 1]
    /\ UNCHANGED <<prev, fbTemplate, fbCall, fbResult, descendant, info, stdin, schema_file,
                   entry, pc, exc, now, childVars, drainVars, loopVars, resultVars>>

\* for block in response.content: a text block is copied to the assistant
\* message; a tool_use block is copied, its tool executed, the execution
\* recorded and a tool_result block with its id queued for the user message;
\* a block of another type is skipped
ProcessBlock(tool_result) ==
    /\ tl.pc = "blocks" /\ tl.idx <= Len(tl.response.content)
    /\ LET block == tl.response.content[tl.idx] IN
         tl' = CASE block.type = "text" ->
                      [tl EXCEPT !.idx = @ + 1, !.assistant_message = Append(@, block)]
                 [] block.type = "tool_use" ->
                      [tl EXCEPT !.idx = @ + 1,
                                 !.assistant_message = Append(@, block),
                                 !.tool_results = Append(@, [id |-> block.id, result |-> tool_result]),
                                 !.user_message_blocks =
                                     Append(@, [type |-> "tool_result", id |-> block.id, content |-> tool_result])]
                 [] OTHER -> [tl EXCEPT !.idx = @ + 1]
    /\ UNCHANGED <<prev, fbTemplate, fbCall, fbResult, descendant, info, stdin, schema_file,
                   entry, pc, exc, now, childVars, drainVars, loopVars, resultVars>>

\* messages.append(assistant_message); messages.append({"role": "user", ...})
EndIteration ==
    /\ tl.pc = "blocks" /\ tl.idx > Len(tl.response.content)
    /\ tl' = [tl EXCEPT !.messages = @ \o <<[role |-> "assistant", content |-> tl.assistant_message],
                                             [role |-> "user", content |-> tl.user_message_blocks]>>,
                         !.iteration = @ + 1, !.pc = "call"]
    /\ UNCHANGED <<prev, fbTemplate, fbCall, fbResult, descendant, info, stdin, schema_file,
                   entry, pc, exc, now, childVars, drainVars, loopVars, resultVars>>

\* range(max_iterations) is exhausted: return {"status": "partial", ...}
ReturnPartial ==
    /\ tl.pc = "call" /\ tl.iteration >= MaxIterations
    /\ tl' = [tl EXCEPT !.pc = "returned", !.result = PartialResult(tl.tool_results)]
    /\ UNCHANGED <<prev, fbTemplate, fbCall, fbResult, descendant, info, stdin, schema_file,
                   entry, pc, exc, now, childVars, drainVars, loopVars, resultVars>>

\* result.get(key, default)
Get(r, key, default) == IF key \in DOMAIN r THEN r[key] ELSE default

\* response_obj of execute_subagent_claude
ClaudeResponse(result) ==
    [version  |-> Str("1.0"),
     task_id  |-> Str(RequestTaskId),
     status   |-> Str(Get(result, "status", "failed")),
     summary  |-> Str(Get(result, "summary", "")),
     outputs  |-> List([i \in 1..Len(Get(result, "tool_results", <<>>)) |-> "tool_result"]),
     issues   |-> IF "error" \in DOMAIN result THEN List(<<result["error"]>>) ELSE List(<<>>)]

\* an exit code that is 1 only for a failed loop
ClaudeExitCodeLenient(result) == IF Get(result, "status", "None") = "failed" THEN 1 ELSE 0

\* exit_code = 0 if result.get("status") == "success" else 1
ClaudeExitCode(result) == IF Get(result, "status", "None") = "success" THEN 0 ELSE 1

\* execute_subagent_claude after run_tool_loop: write the response, return
WriteClaudeResponse ==
    /\ tl.pc = "returned"
    /\ tl' = [tl EXCEPT !.pc = "exited", !.doc = ClaudeResponse(tl.result),
                         !.exit_code = ClaudeExitCode(tl.result)]
    /\ UNCHANGED <<prev, fbTemplate, fbCall, fbResult, descendant, info, stdin, schema_file,
                   entry, pc, exc, now, childVars, drainVars, loopVars, resultVars>>

ToolLoopStep ==
    \/ ApiRaises
    \/ \E resp \in Responses(tl.api_calls_count + 1) : ApiResponds(resp)
    \/ \E res \in ToolOutcomes : ProcessBlock(res)
    \/ EndIteration
    \/ ReturnPartial
    \/ WriteClaudeResponse

\* the loop is sequential code whose calls return: it keeps taking steps
SpecToolLoop == InitLoop /\ [][ToolLoopStep]_vars /\ WF_vars(ToolLoopStep)

\* ------------------------------------------------------ failing reads
\* stream.read(1024) raises (an OSError of the pipe, say): the exception
\* leaves the while loop of read_stream, finally: out_queue.put(None) runs and
\* the thread ends with the exception. What was still in the pipe stays there.
DrainError(s) ==
    /\ dpc[s] = "reading"
    /\ queue' = [queue EXCEPT ![s] = Append(@, Sentinel)]
    /\ dpc' = [dpc EXCEPT ![s] = "failed"]
    /\ UNCHANGED <<otherVars, entry, pc, exc, now, childVars, loopVars, resultVars>>

NextLoopFaults == NextLoop \/ \E s \in Streams : DrainError(s)

SpecLoopFaults == InitLoop /\ [][NextLoopFaults]_vars

\* ------------------------------------------------- the child's own children
\* The child may start a process of its own (with streams of its own, so the
\* pipes of the model stay the child's alone), which ends when it pleases.
\* proc.kill() signals the child's pid only: Popen is given no session or
\* process group, and nothing in main signals anything else.
ChildSpawn ==
    /\ alive /\ ~descendant
    /\ descendant' = TRUE
    /\ UNCHANGED <<prev, fbTemplate, fbCall, fbResult, info, stdin, tl, schema_file, entry, pc, exc, now, childVars, drainVars, loopVars, resultVars>>

DescendantExit ==
    /\ descendant
    /\ descendant' = FALSE
    /\ UNCHANGED <<prev, fbTemplate, fbCall, fbResult, info, stdin, tl, schema_file, entry, pc, exc, now, childVars, drainVars, loopVars, resultVars>>

NextTree == Next \/ ChildSpawn \/ DescendantExit

SpecTree == Init /\ [][NextTree]_vars

\* ---------------------------------------------- two invocations in a row
\* The supervisor is invoked again after an invocation has ended; prev keeps
\* whether the earlier one wrote a fallback document and what it exited with.
Reinvoke(e) ==
    /\ pc \in {"done", "crashed"} /\ ~prev.ran
    /\ prev' = [ran |-> TRUE, classified |-> returncode # None,
                wrote |-> fallbacks > 0, status |-> exit_status]
    /\ artifact' = IF artifact.exists THEN [artifact EXCEPT !.author = "earlier run"] ELSE artifact
    /\ entry' = e
    /\ pc' = "start"
    /\ exc' = "none"
    /\ alive' = FALSE
    /\ childCode' = None
    /\ returncode' = None
    /\ pipe' = [s \in Streams |-> <<>>]
    /\ wclosed' = [s \in Streams |-> FALSE]
    /\ emitted' = [s \in Streams |-> 0]
    /\ queue' = [s \in Streams |-> <<>>]
    /\ dpc' = [s \in Streams |-> "idle"]
    /\ chunks' = [s \in Streams |-> <<>>]
    /\ done' = [s \in Streams |-> FALSE]
    /\ timed_out' = FALSE
    /\ last_output' = 0
    /\ now' = 0
    /\ waitStart' = 0
    /\ pre' = NoFile
    /\ stderr_file' = [written |-> FALSE, chunks |-> <<>>, notice |-> FALSE]
    /\ exit_status' = None
    /\ outcome' = "none"
    /\ fallbacks' = 0
    /\ warned' = FALSE
    /\ UNCHANGED <<fbTemplate, fbCall, fbResult, descendant, info, stdin, tl, schema_file>>

NextPairs == Next \/ \E e \in Entries : Reinvoke(e)

SpecPairs == Init /\ [][NextPairs]_vars

\* ------------------------------------------- the fallback writers alone
\* Each writer applied once to every template state, task id and issue list.
FallbackTaskIds == {"None", "t1"}
FallbackIssues == {<<>>, <<"timeout", "no stderr output for 60s">>, <<"missing response.json", "exit code: 7">>}
FallbackSummary == "Codex did not produce response.json"

InitFallback ==
    /\ RunInit("main", NoFile)
    /\ prev = NoPrev
    /\ fbTemplate \in TemplateStates
    /\ fbCall = NoCall
    /\ fbResult = NoResult
    /\ descendant = FALSE
    /\ info = NoInfo
    /\ stdin = NoStdin
    /\ tl = NoToolLoop
    /\ schema_file = FALSE

CallLibFallback(tid, iss) ==
    /\ fbCall = NoCall
    /\ fbCall' = [writer |-> "lib", task_id |-> tid, issues |-> iss]
    /\ fbResult' = LibWriteFallback(fbTemplate, tid, FallbackSummary, iss)
    /\ UNCHANGED <<entry, pc, exc, now, childVars, drainVars, loopVars, resultVars, prev, fbTemplate, descendant, info, stdin, tl, schema_file>>

CallMainFallback(tid, iss) ==
    /\ fbCall = NoCall
    /\ fbCall' = [writer |-> "main", task_id |-> tid, issues |-> iss]
    /\ fbResult' = MainWriteFallback(tid, FallbackSummary, iss)
    /\ UNCHANGED <<entry, pc, exc, now, childVars, drainVars, loopVars, resultVars, prev, fbTemplate, descendant, info, stdin, tl, schema_file>>

CallExecFallback(tid, iss) ==
    /\ fbCall = NoCall
    /\ fbCall' = [writer |-> "exec", task_id |-> tid, issues |-> iss]
    /\ fbResult' = ExecWriteFallback(tid, FallbackSummary, iss)
    /\ UNCHANGED <<entry, pc, exc, now, childVars, drainVars, loopVars, resultVars, prev, fbTemplate, descendant, info, stdin, tl, schema_file>>

NextFallback ==
    \E tid \in FallbackTaskIds, iss \in FallbackIssues :
        CallLibFallback(tid, iss) \/ CallMainFallback(tid, iss) \/ CallExecFallback(tid, iss)

SpecFallback == InitFallback /\ [][NextFallback]_vars

\* ------------------------------------------------------------- claims
Ended == pc \in {"done", "crashed"}

\* the watchdog loop and proc.wait() returned and the supervisor has ended
Classified == Ended /\ returncode # None

\* the file is a fallback document whose issues list holds the tag
HasIssue(f, tag) ==
    /\ f.exists /\ f.author = "supervisor" /\ "issues" \in DOMAIN f.doc
    /\ \E i \in 2..Len(f.doc["issues"]) : f.doc["issues"][i] = tag

\* the outcome the specification documents for the classifier's inputs
DocumentedOutcome(to, ex, pa) ==
    IF to THEN "Timeout"
    ELSE IF ~ex THEN "MissingOutput"
    ELSE IF ~pa THEN "InvalidOutput"
    ELSE "PassThrough"

\* C1: for every (timed_out, artifact exists, artifact parses) and every child
\* exit code the classifier takes exactly the documented branch: Timeout, else
\* MissingOutput, else InvalidOutput, else pass-through.
C1_ClassifierOrder ==
    Classified => outcome = DocumentedOutcome(timed_out, pre.exists, pre.text = "json")

\* C2: not timed out and artifact absent, for every child exit code c:
\* MissingOutput, a fallback document with "missing response.json" and
\* "exit code: c", and exit code 1.
C2_MissingOutput ==
    (Classified /\ ~timed_out /\ ~pre.exists) =>
        /\ outcome = "MissingOutput"
        /\ HasIssue(artifact, "missing response.json")
        /\ HasIssue(artifact, "exit code: " \o ToString(returncode))
        /\ exit_status = 1

\* C3: not timed out and artifact present but not JSON (an empty file too):
\* InvalidOutput, the artifact replaced by a fallback document with
\* "invalid json response" and "exit code: c", and exit code 1.
C3_InvalidOutput ==
    (Classified /\ ~timed_out /\ pre.exists /\ pre.text # "json") =>
        /\ outcome = "InvalidOutput"
        /\ HasIssue(artifact, "invalid json response")
        /\ HasIssue(artifact, "exit code: " \o ToString(returncode))
        /\ exit_status = 1

\* C4: whenever the watchdog finds, with a stream still open, that more than
\* idle-timeout has passed since the last diagnostic chunk, it sets timed_out;
\* a timed-out run ends as Timeout (fallback document tagged "timeout", exit
\* code 1) with the child no longer running.
C4_TimeoutOutcome ==
    /\ [][(pc = "check" /\ ~(done["out"] /\ done["err"]) /\ now - last_output > IdleTimeout /\ pc' # pc)
            => (timed_out' /\ ~alive')]_vars
    /\ []((Ended /\ timed_out) =>
            /\ outcome = "Timeout"
            /\ HasIssue(artifact, "timeout")
            /\ exit_status = 1
            /\ ~alive)

C4_Witness == pc = "done" /\ timed_out /\ ~done["out"] /\ done["err"] /\ outcome = "Timeout"

\* C5: not timed out, artifact present and parseable, child exit code 0: the
\* supervisor returns 0, writes no fallback document and leaves the artifact
\* as the child wrote it.
C5_SuccessUntouched ==
    (Classified /\ ~timed_out /\ pre.exists /\ pre.text = "json" /\ returncode = 0) =>
        /\ pc = "done"
        /\ exit_status = 0
        /\ fallbacks = 0
        /\ artifact = pre
        /\ artifact.author # "supervisor"

C5_Witness ==
    pc = "done" /\ outcome = "PassThrough" /\ returncode = 0 /\ artifact.author = "child"

\* C6: not timed out, artifact present and parseable, child exit code c # 0:
\* no fallback document, the artifact untouched, and c forwarded as the
\* supervisor's exit code.
C6_NonZeroPassThrough ==
    (Classified /\ ~timed_out /\ pre.exists /\ pre.text = "json" /\ returncode # 0) =>
        /\ outcome = "PassThrough"
        /\ fallbacks = 0
        /\ artifact = pre
        /\ exit_status = returncode

\* C7: the supervisor's exit code is 0 exactly on the valid path with child
\* exit code 0; it is 1 whenever the run timed out or the artifact is absent
\* or unparseable, whatever the child's status (-9 after a kill included); and
\* a code other than 0 and 1 is the child's own, on the valid path only.
C7_ExitCodes ==
    Classified =>
        /\ (exit_status = 0) <=> (~timed_out /\ pre.exists /\ pre.text = "json" /\ returncode = 0)
        /\ (timed_out \/ ~pre.exists \/ pre.text # "json") => exit_status = 1
        /\ outcome \in {"Timeout", "MissingOutput", "InvalidOutput"} => exit_status = 1
        /\ exit_status \notin {0, 1} =>
              (outcome = "PassThrough" /\ exit_status = returncode /\ ~timed_out)

C7_Witness == pc = "done" /\ outcome = "Timeout" /\ returncode = -9 /\ exit_status = 1

\* C8: over every pair of invocations whose classifier ran: if one wrote a
\* fallback document and the other did not, their exit codes differ.
C8_FailureCodeDistinct ==
    (Classified /\ prev.ran /\ prev.classified /\ prev.wrote # (fallbacks > 0)) =>
        prev.status # exit_status

\* C9: every document a fallback writer writes, in every state of the
\* template, has all six required fields and a status among success, partial
\* and failed.
C9_FallbackContract ==
    fbCall # NoCall =>
        /\ fbResult.raised = "none"
        /\ fbResult.file.exists
        /\ RequiredFields \subseteq DOMAIN fbResult.file.doc
        /\ fbResult.file.doc["status"] \in {Str(st) : st \in ValidStatuses}

\* C10: with the template source unavailable (no directory, no file, not
\* JSON, not an object) lib's write_fallback_response raises nothing and
\* writes exactly {version "1.0", task_id, status failed, summary, outputs [],
\* issues}.
C10_TemplateUnavailable ==
    (fbCall.writer = "lib" /\ fbTemplate.state # "object") =>
        /\ fbResult.raised = "none"
        /\ fbResult.file.exists
        /\ DOMAIN fbResult.file.doc = {"version", "task_id", "status", "summary", "outputs", "issues"}
        /\ fbResult.file.doc["version"] = <<"str", "1.0">>
        /\ fbResult.file.doc["task_id"] = <<"str", IF fbCall.task_id = "None" THEN "" ELSE fbCall.task_id>>
        /\ fbResult.file.doc["status"] = <<"str", "failed">>
        /\ fbResult.file.doc["summary"] = <<"str", FallbackSummary>>
        /\ fbResult.file.doc["outputs"] = <<"list">>
        /\ fbResult.file.doc["issues"] = <<"list">> \o fbCall.issues

C10_Witness ==
    /\ fbCall.writer = "lib" /\ fbTemplate.state = "non_object"
    /\ fbResult.file.exists /\ fbCall.issues # <<>>

\* the tag the specification gives each failure kind
FailureTag(kind) ==
    CASE kind = "Timeout"       -> "timeout"
      [] kind = "MissingOutput" -> "missing response.json"
      [] kind = "InvalidOutput" -> "invalid json response"
      [] OTHER                  -> "none"

\* the summary the classifier hands to the fallback writer for each kind
FailureSummary(kind) ==
    CASE kind = "Timeout"       -> "Subagent timed out after " \o ToString(IdleTimeout) \o "s of no stderr output"
      [] kind = "MissingOutput" -> "Codex did not produce response.json"
      [] kind = "InvalidOutput" -> "Codex returned invalid JSON"
      [] OTHER                  -> "none"

\* C11: every fallback document the supervisor writes has status failed, the
\* summary its caller gave, an empty outputs list and a non-empty issues list
\* whose first tag names the failure kind; the three kinds have the pairwise
\* distinct tags "timeout", "missing response.json", "invalid json response".
C11_FallbackShape ==
    /\ fallbacks > 0 =>
          /\ artifact.exists /\ artifact.author = "supervisor"
          /\ outcome \in {"Timeout", "MissingOutput", "InvalidOutput"}
          /\ artifact.doc["status"] = <<"str", "failed">>
          /\ artifact.doc["summary"] = <<"str", FailureSummary(outcome)>>
          /\ artifact.doc["outputs"] = <<"list">>
          /\ Len(artifact.doc["issues"]) > 1
          /\ artifact.doc["issues"][2] = FailureTag(outcome)
    /\ TimeoutIssues[1] = "timeout"
    /\ \A c \in ExitCodes \cup {-9} :
          /\ MissingIssues(c)[1] = "missing response.json"
          /\ InvalidIssues(c)[1] = "invalid json response"

C11_Witness ==
    /\ pc = "done" /\ outcome = "InvalidOutput" /\ fallbacks = 1
    /\ artifact.doc["issues"] = <<"list", "invalid json response", "exit code: 0">>

\* the file holds a JSON object with the six fields of a result document
HasResultShape(f) ==
    /\ f.exists /\ f.text = "json"
    /\ {"version", "task_id", "status", "summary", "outputs", "issues"} \subseteq DOMAIN f.doc

\* the prompt was written: the drainers were started
PromptWritten == dpc["out"] # "idle"

\* C12: after every invocation in which the prompt was written and the
\* supervisor has ended, whatever the outcome, the artifact path holds a
\* parseable result document with version, task_id, status, summary, outputs
\* and issues.
C12_UniformShape ==
    (Ended /\ PromptWritten) => HasResultShape(artifact)

\* C13: whenever a run is classified as success (no fallback written, exit
\* code 0) the artifact holds a document with version, task_id, summary,
\* outputs, issues and a status among success, partial and failed.
C13_SuccessDocument ==
    (pc = "done" /\ fallbacks = 0 /\ exit_status = 0) =>
        /\ HasResultShape(artifact)
        /\ artifact.doc["status"] \in {<<"str", "success">>, <<"str", "partial">>, <<"str", "failed">>}

\* C13, amended: whenever a run is classified as success the artifact is the
\* file the classifier found, untouched, and its text parses as JSON; it has
\* the six fields only when the file found had them, since the classifier
\* parses the text and looks at none of its fields.
C13_SuccessParses ==
    (pc = "done" /\ fallbacks = 0 /\ exit_status = 0) =>
        /\ artifact = pre
        /\ artifact.exists /\ artifact.text = "json"
        /\ artifact.author # "supervisor"
        /\ HasResultShape(artifact) <=> HasResultShape(pre)

C13_Witness ==
    /\ pc = "done" /\ fallbacks = 0 /\ exit_status = 0
    /\ artifact.author = "child" /\ ~HasResultShape(artifact)

\* C14: while no diagnostic chunk has been delivered the watchdog loop is
\* left, by the forced termination unless both streams ended first, no later
\* than idle-timeout plus one poll interval after the loop began (the clock
\* reads 0 there), whether or not the output stream delivers chunks; the
\* forced termination itself comes after the idle-timeout has passed.
C14_KillLatency ==
    /\ (InLoop /\ chunks["err"] = <<>>) => now <= IdleTimeout + PollInterval
    /\ (timed_out /\ chunks["err"] = <<>>) =>
          (now > IdleTimeout /\ now <= IdleTimeout + PollInterval /\ ~alive)

C14_Witness ==
    /\ pc = "wait" /\ timed_out /\ emitted["err"] = 0 /\ chunks["out"] # <<>>
    /\ ~done["out"] /\ ~done["err"] /\ childCode = -9
    /\ now = IdleTimeout + PollInterval

\* C15: with the drainers, the watchdog and the clock scheduled fairly the
\* watchdog loop is always left, also when one stream stays silent while the
\* other delivers data and ends: by both sentinels once the silent stream
\* closes, by the idle-timeout otherwise.
C15_LoopExits == InLoop ~> (pc = "wait")

C15_Witness ==
    /\ pc = "wait" /\ timed_out
    /\ emitted["out"] = 0 /\ ~done["out"]
    /\ chunks["err"] # <<>> /\ done["err"]

\* C16: in a watchdog iteration last_output is set to the current time exactly
\* when a chunk that is no sentinel is taken from the diagnostic queue; taking
\* an output chunk or a sentinel, or finding a queue empty, leaves it as it
\* was, so a run whose last diagnostic chunk is more than idle-timeout old at
\* the deadline test is timed out whatever the output stream delivered.
C16_ActivityClock ==
    /\ [][InLoop =>
            IF Len(chunks'["err"]) > Len(chunks["err"])
            THEN last_output' = now
            ELSE last_output' = last_output]_vars
    /\ [][(pc = "get_stderr" /\ queue["err"] # <<>> /\ Head(queue["err"]) # 0 /\ pc' # pc)
            => Len(chunks'["err"]) > Len(chunks["err"])]_vars
    /\ [][(pc = "check" /\ ~(done["out"] /\ done["err"]) /\ now - last_output > IdleTimeout /\ pc' # pc)
            => timed_out']_vars

C16_Witness ==
    /\ pc = "done" /\ timed_out
    /\ chunks["out"] # <<>> /\ done["err"] /\ chunks["err"] # <<>>
    /\ last_output > 0 /\ now - last_output > IdleTimeout

\* the watchdog loop has been left
LoopLeft == pc \in {"wait", "persist", "classify", "read", "parse", "done"} \/ (pc = "crashed" /\ returncode # None)

\* C17: the watchdog loop is left once, either with both sentinels consumed,
\* timed_out false and no kill, or with timed_out true, the kill issued and a
\* sentinel still missing; timed_out never holds together with both streams
\* marked done.
C17_OneExit ==
    /\ [](~(timed_out /\ done["out"] /\ done["err"]))
    /\ [](LoopLeft => (timed_out <=> ~(done["out"] /\ done["err"])))
    /\ [](timed_out => (LoopLeft /\ ~alive))
    /\ [][(InLoop /\ ~InLoop') =>
            /\ pc' = "wait"
            /\ timed_out' => (~alive' /\ childCode' = (IF alive THEN -9 ELSE childCode))
            /\ ~timed_out' => (alive' = alive /\ childCode' = childCode)]_vars
    /\ [][LoopLeft => (LoopLeft' /\ timed_out' = timed_out /\ done' = done)]_vars

C17_Witness ==
    /\ pc = "done" /\ ~timed_out /\ done["out"] /\ done["err"]
    /\ chunks["err"] # <<>> /\ now > IdleTimeout

\* C18: when writing the prompt or closing the pipe fails the child is killed
\* and the error leaves the supervisor: no drainer was started, the watchdog
\* loop did not run, timed_out is false, no fallback document was written and
\* the supervisor left the artifact path as it was.
C18_LaunchFailure ==
    /\ [](exc = "BrokenPipeError" =>
            /\ pc = "crashed" /\ exit_status # 0
            /\ ~alive
            /\ \A s \in Streams : dpc[s] = "idle" /\ queue[s] = <<>> /\ chunks[s] = <<>> /\ ~done[s]
            /\ ~timed_out
            /\ fallbacks = 0 /\ outcome = "none"
            /\ artifact.author # "supervisor")
    /\ [][(pc = "send_prompt" /\ pc' = "crashed") =>
            (exc' = "BrokenPipeError" /\ artifact' = artifact)]_vars

C18_Witness ==
    /\ pc = "crashed" /\ exc = "BrokenPipeError"
    /\ childCode = -9 /\ ~artifact.exists

\* C19: after a forced termination on idle-timeout, once the supervisor has
\* ended, neither the child nor a process the child spawned is running.
C19_TreeReclaimed ==
    (Ended /\ timed_out) => (~alive /\ ~descendant)

\* the chunks 1, ..., n in the order the child wrote them
Emitted(n) == [i \in 1..n |-> i]

\* C20: stderr.txt holds every chunk the child wrote to its diagnostic
\* stream, once each and in the order written, followed by the notice exactly
\* when the run timed out.
C20_StderrVerbatim ==
    Classified =>
        /\ stderr_file.written
        /\ stderr_file.chunks = Emitted(emitted["err"])
        /\ stderr_file.notice = timed_out

\* C21: an invocation spawns the child at most once: the child is started
\* only by the launch, the supervisor never returns to the launch, and once
\* it has ended (launch failure or any outcome of the classifier) it takes no
\* further step, so no second child is started and the classifier is not run
\* again.
C21_SingleAttempt ==
    /\ [][(alive' /\ ~alive) => (pc = "start" /\ childCode = -1000 /\ returncode = -1000)]_vars
    /\ [][pc # "start" => pc' # "start"]_vars
    /\ [][(pc \in {"done", "crashed"}) =>
            (pc' = pc /\ alive' = alive /\ outcome' = outcome /\ fallbacks' = fallbacks
             /\ returncode' = returncode /\ exit_status' = exit_status)]_vars
    /\ [][outcome # "none" => outcome' = outcome]_vars

C21_Witness ==
    /\ pc = "done" /\ outcome = "MissingOutput" /\ fallbacks = 1
    /\ ~alive /\ childCode = 0 /\ emitted["err"] > 0

C24_WaitCompletes == (pc = "wait") ~> (pc = "persist")

\* C25: the loop is not ended by the child's exit: when it has been left
\* without a timeout both sentinels have been consumed, both queues and pipes
\* are empty and the accumulated lists hold every block of each stream in
\* order, whichever stream ended first and whether the child exited before or
\* after its pipes were drained; a child that has exited leaves the loop
\* running until then.
C25_NaturalExit ==
    /\ (LoopLeft /\ ~timed_out) =>
          \A s \in Streams :
              /\ done[s] /\ dpc[s] = "done"
              /\ queue[s] = <<>> /\ pipe[s] = <<>>
              /\ chunks[s] = [i \in 1..emitted[s] |-> i]
    /\ (PromptWritten /\ ~timed_out /\ ~(done["out"] /\ done["err"])) => InLoop

C25_Witness ==
    /\ pc = "wait" /\ ~alive /\ childCode = 0 /\ ~timed_out
    /\ chunks["out"] # <<>> /\ chunks["err"] # <<>>
    /\ now > IdleTimeout

\* everything the drainer of s has put on its queue so far, in order: what
\* the watchdog took (chunks, then the sentinel if the flag is set) and what
\* is still queued
Pushed(s) == chunks[s] \o (IF done[s] THEN <<0>> ELSE <<>>) \o queue[s]

C27_KillOnlyPastDeadline ==
    /\ [][(PromptWritten /\ (timed_out' # timed_out \/ (alive /\ ~alive' /\ childCode' = -9)))
            => /\ pc = "check" /\ pc' = "wait"
               /\ ~(done["out"] /\ done["err"])
               /\ now - last_output > IdleTimeout
               /\ timed_out' /\ ~timed_out]_vars
    /\ []((LoopLeft /\ done["out"] /\ done["err"]) => (~timed_out /\ childCode # -9))
    /\ []((LoopLeft /\ timed_out) => ~(done["out"] /\ done["err"]))

C27_Witness ==
    /\ pc = "wait" /\ done["out"] /\ done["err"] /\ ~timed_out
    /\ alive /\ now - last_output > IdleTimeout

\* the queue get of the watchdog that serves stream s
GetPc(s) == IF s = "out" THEN "get_stdout" ELSE "get_stderr"

\* a step of the drainer of s: it is reading and either takes a block off its
\* pipe or ends; the main thread does not move
DrainerMoves(s) ==
    /\ dpc[s] = "reading" /\ pc' = pc
    /\ (pipe[s] # <<>> /\ pipe'[s] = Tail(pipe[s])) \/ dpc'[s] \in {"done", "failed"}

\* C28: a queue grows only by a step of its own drainer, which touches
\* nothing of the other stream, and shrinks only by the watchdog's get for
\* that queue, one item from the head; the accumulated lists, the done
\* flags, the timed-out flag and the activity clock change only in steps of
\* the main thread, never in a drainer's step.
C28_SingleProducerConsumer ==
    [][\A s \in Streams :
        /\ Len(queue'[s]) > Len(queue[s]) =>
              /\ DrainerMoves(s)
              /\ Len(queue'[s]) = Len(queue[s]) + 1
              /\ SubSeq(queue'[s], 1, Len(queue[s])) = queue[s]
              /\ \A t \in Streams \ {s} :
                    queue'[t] = queue[t] /\ pipe'[t] = pipe[t] /\ dpc'[t] = dpc[t]
        /\ (queue'[s] # queue[s] /\ Len(queue'[s]) <= Len(queue[s])) =>
              /\ pc = GetPc(s) /\ pc' # pc
              /\ queue[s] # <<>> /\ queue'[s] = Tail(queue[s])
              /\ dpc' = dpc /\ pipe' = pipe
        /\ DrainerMoves(s) =>
              /\ chunks' = chunks /\ done' = done /\ timed_out' = timed_out
              /\ last_output' = last_output /\ waitStart' = waitStart
        /\ (chunks'[s] # chunks[s] \/ done'[s] # done[s]) =>
              (pc = GetPc(s) /\ pc' # pc /\ dpc' = dpc)
        /\ (timed_out' # timed_out \/ last_output' # last_output) =>
              (pc' # pc /\ dpc' = dpc)]_vars

C28_Witness ==
    /\ pc = "get_stderr" /\ chunks["out"] # <<>> /\ queue["err"] # <<>>
    /\ dpc["out"] = "reading" /\ dpc["err"] = "failed" /\ ~done["err"]

\* block i of stream s has been written by the child and not yet read
InPipe(s, i) == \E k \in 1..Len(pipe[s]) : Block(pipe[s][k]) = i

\* C29: a drainer whose read can return is never held up by the state of the
\* other stream, and the watchdog's get of a non-empty queue is never held up
\* either; so every block the child has written to a stream is, while the loop
\* runs, eventually pushed and accumulated by the watchdog (a diagnostic
\* block resetting the activity clock), or the loop has exited first,
\* whatever the other stream does, and in particular while it is silent and
\* open.
C29_IndependentProgress ==
    /\ [](\A s \in Streams :
            (dpc[s] = "reading" /\ ReadReturns(pipe[s], wclosed[s])) => ENABLED DrainRead(s))
    /\ []((pc = "get_stderr" /\ queue["err"] # <<>>) => ENABLED WdStderrItem)
    /\ []((pc = "get_stdout" /\ queue["out"] # <<>>) => ENABLED WdStdoutItem)
    /\ [][Len(chunks'["err"]) > Len(chunks["err"]) => last_output' = now]_vars
    /\ \A s \in Streams : \A i \in 1..MaxChunks :
          (InLoop /\ InPipe(s, i)) ~> (~InLoop \/ Len(chunks[s]) >= i)

C29_Witness ==
    /\ InLoop /\ alive /\ now > 0
    /\ emitted["out"] = 0 /\ pipe["out"] = <<>> /\ ~wclosed["out"] /\ dpc["out"] = "reading"
    /\ chunks["err"] # <<>> /\ last_output = now

\* the outcomes in which the supervisor writes the artifact itself
FallbackOutcomes == {"Timeout", "MissingOutput", "InvalidOutput"}

\* C30: an invocation that has gone through the classifier has exactly one
\* outcome; the supervisor has written the artifact at most once, and exactly
\* when the outcome is Timeout, MissingOutput or InvalidOutput; and once the
\* outcome is assigned, no step changes the outcome, the artifact, the
\* persisted diagnostic text or the exit code.
C30_OutcomeOnce ==
    /\ [](Classified => outcome \in FallbackOutcomes \cup {"PassThrough"})
    /\ [](fallbacks <= 1 /\ (fallbacks = 1 <=> outcome \in FallbackOutcomes))
    /\ [](artifact.author = "supervisor" => outcome \in FallbackOutcomes)
    /\ [][outcome # "none" =>
            /\ outcome' = outcome /\ artifact' = artifact /\ fallbacks' = fallbacks
            /\ stderr_file' = stderr_file /\ exit_status' = exit_status]_vars

\* how an invocation of main ends (run_subagent.py:197-313): the prompt could
\* not be written and the child was killed; or the warning block raised; or
\* one branch of the classifier ran, chosen by the timed-out flag and the
\* file found at the artifact path, with stderr.txt written in every case
MainEnding ==
    /\ stderr_file.written
    /\ \/ pc = "crashed" /\ exc = "BrokenPipeError" /\ ~alive /\ returncode = None /\ exit_status = 1
       \/ pc = "crashed" /\ exc = "AttributeError" /\ ~timed_out /\ returncode \notin {None, 0}
             /\ exit_status = 1 /\ outcome = "none"
       \/ /\ pc = "done" /\ exc = "none" /\ returncode # None
          /\ outcome = DocumentedOutcome(timed_out, pre.exists, JsonParses(pre.text))
          /\ exit_status = IF outcome = "PassThrough" THEN PassThroughStatus(returncode) ELSE 1
          /\ (outcome # "PassThrough") <=> (artifact.author = "supervisor" /\ fallbacks = 1)

\* C31: the two supervisors are equivalent: an invocation of either entry
\* point ends the way main ends for the same child behaviour, with the same
\* classification, exit code, diagnostic text and effect on the artifact path.
C31_EntriesEquivalent == Ended => MainEnding

\* C32: every invocation that has spawned the child eventually ends, by a
\* launch failure or at the end of the classifier, whatever the child does
\* and with pipes of bounded capacity: also for a child that fills its output
\* or diagnostic pipe before it reads its input.
C32_AlwaysEnds == (pc = "send_prompt") ~> Ended

\* C33: a run ends as a pass-through only with an artifact the child wrote
\* in this invocation; with a parseable file of an earlier run at the artifact
\* path and a child that ends without writing it, a run that did not time
\* out ends as MissingOutput.
C33_NoStalePassThrough ==
    /\ (pc = "done" /\ outcome = "PassThrough") => artifact.author = "child"
    /\ (pc = "done" /\ ~timed_out /\ pre.exists /\ pre.author = "earlier run")
          => outcome = "MissingOutput"

\* the blocks the drainer of s has read from its pipe so far, in order:
\* those the child wrote that are no longer in the pipe
ReadSoFar(s) == [i \in 1..(emitted[s] - Len(pipe[s])) |-> i]

\* the position of the watchdog after its get for stream s
AfterGet(s) == IF s = "out" THEN "get_stderr" ELSE "check"

ValidatorTemplateFields == {"version", "task_id", "status", "summary", "outputs", "issues"}

\* validate_response_file(response_path, check_required_fields=True): the
\* kinds of error it lists for the file f
ValidationErrors(f) ==
    IF ~f.exists THEN {"not found"}
    ELSE IF ~JsonParses(f.text) THEN {"invalid json"}
    ELSE (IF ValidatorTemplateFields \ DOMAIN f.doc # {} THEN {"missing fields"} ELSE {})
         \cup (IF DOMAIN f.doc \ ValidatorTemplateFields # {} THEN {"extra fields"} ELSE {})
         \cup (IF "status" \in DOMAIN f.doc /\ f.doc["status"] \notin {Str(st) : st \in ValidStatuses}
                THEN {"invalid status"} ELSE {})

\* C35: every fallback document a supervisor's writer has written is
\* accepted by validate_response_file with field checking: no field of the
\* template missing, no extra field, a valid status; for the writer of lib,
\* the writer of run_subagent.py and the writer of run_subagent_exec.py.
C35_FallbackValidates ==
    (fbCall # NoCall /\ fbResult.file.exists) => ValidationErrors(fbResult.file) = {}

\* run_tool_loop has returned
ToolLoopReturned == tl.pc \in {"returned", "exited"}

\* C36: run_tool_loop returns, after at most max_iterations API calls; its
\* status is failed exactly when an API call raised, success exactly when a
\* response had stop_reason end_turn (none before it having raised), partial
\* exactly when max_iterations responses came, none with end_turn, and no
\* call raised; a tool that gives an error does not end the loop.
C36_ToolLoopStatus ==
    /\ <>ToolLoopReturned
    /\ [](tl.api_calls_count + (IF tl.raised THEN 1 ELSE 0) <= MaxIterations)
    /\ [](ToolLoopReturned =>
            /\ tl.result.status \in {"failed", "success", "partial"}
            /\ (tl.result.status = "failed") <=> tl.raised
            /\ (tl.result.status = "success") <=> (tl.end_turn /\ ~tl.raised)
            /\ (tl.result.status = "partial") <=>
                  (tl.api_calls_count = MaxIterations /\ ~tl.end_turn /\ ~tl.raised))
    /\ [][(tl'.tool_results # tl.tool_results) => ~ToolLoopReturned']_vars

C36_Witness ==
    /\ tl.pc = "returned" /\ tl.result.status = "success" /\ tl.api_calls_count = MaxIterations
    /\ \E k \in 1..Len(tl.tool_results) : tl.tool_results[k].result = "error"

IsToolUse(b) == b.type = "tool_use"
Ids(blocks) == [i \in 1..Len(blocks) |-> blocks[i].id]
ToolUseIds(content) == Ids(SelectSeq(content, IsToolUse))

\* the ids of the tool_use blocks of the assistant messages of a history
RECURSIVE HistoryToolUseIds(_)
HistoryToolUseIds(msgs) ==
    IF msgs = <<>> THEN <<>>
    ELSE HistoryToolUseIds(SubSeq(msgs, 1, Len(msgs) - 1))
         \o (IF msgs[Len(msgs)].role = "assistant" THEN ToolUseIds(msgs[Len(msgs)].content) ELSE <<>>)

\* C37: the message history starts with a user message and alternates
\* user and assistant; each assistant message is followed at once by a user
\* message holding one tool_result per tool_use block of it, same ids, same
\* order, and nothing else; and the tools executed so far are the tool_use
\* blocks copied so far, each once.
C37_HistoryShape ==
    /\ tl.messages # <<>> /\ tl.messages[1].role = "user"
    /\ \A k \in 1..Len(tl.messages) :
          tl.messages[k].role = (IF k % 2 = 1 THEN "user" ELSE "assistant")
    /\ \A k \in 1..Len(tl.messages) : tl.messages[k].role = "assistant" =>
          /\ k + 1 <= Len(tl.messages)
          /\ \A i \in 1..Len(tl.messages[k + 1].content) :
                tl.messages[k + 1].content[i].type = "tool_result"
          /\ Ids(tl.messages[k + 1].content) = ToolUseIds(tl.messages[k].content)
    /\ Ids(tl.tool_results) =
          HistoryToolUseIds(tl.messages)
          \o (IF tl.pc = "blocks" THEN ToolUseIds(tl.assistant_message) ELSE <<>>)
    /\ \A i, j \in 1..Len(tl.tool_results) :
          tl.tool_results[i].id = tl.tool_results[j].id => i = j
    /\ tl.pc = "blocks" =>
          ToolUseIds(tl.assistant_message) = ToolUseIds(SubSeq(tl.response.content, 1, tl.idx - 1))

C37_Witness ==
    /\ Len(tl.messages) > MaxIterations + 1
    /\ Len(tl.messages[2].content) = MaxBlocks /\ Len(tl.messages[3].content) = MaxBlocks
    /\ tl.messages[3].content[1].content = "error"
    /\ tl.messages[3].content[MaxBlocks].content = "value"

\* C38: the document execute_subagent_claude writes has the six fields and
\* a status among success, partial, failed; the exit code is 0 exactly when
\* the status is success (1 for partial and for failed); and the issues list
\* is non-empty exactly when the loop reported an error.
C38_ClaudeResponse ==
    tl.pc = "exited" =>
        /\ DOMAIN tl.doc = RequiredFields
        /\ tl.doc["status"] \in {Str(st) : st \in ValidStatuses}
        /\ tl.doc["status"] = Str(tl.result.status)
        /\ tl.exit_code \in {0, 1}
        /\ (tl.exit_code = 0) <=> (tl.doc["status"] = Str("success"))
        /\ (Len(tl.doc["issues"]) > 1) <=> ("error" \in DOMAIN tl.result)
        /\ ("error" \in DOMAIN tl.result) <=> tl.raised

C38_Witness ==
    /\ tl.pc = "exited" /\ tl.doc["status"] = Str("partial") /\ tl.exit_code = 1
    /\ tl.doc["issues"] = List(<<>>) /\ Len(tl.doc["outputs"]) > 1

\* C39: when main has ended, on whatever path, the temporary output-schema
\* file it created before the spawn no longer exists.
C39_SchemaFileDeleted == Ended => ~schema_file

====
